---- MODULE Spec2Model ----
(***************************************************************************)
(* Model of data-cleanup.py (Rome rent listings clean-up pipeline).        *)
(*                                                                         *)
(* Python strings are TLA+ strings (sequences of characters); the str      *)
(* methods and the regular expressions the script uses are operators over  *)
(* them.  Python values are tagged tuples, so that values of different     *)
(* Python types are never equal:                                           *)
(*   <<"None">>            None                                            *)
(*   <<"nan">>             float nan (an empty CSV cell, a parsed "nan")   *)
(*   <<"inf", s>>          float +inf (s = 1) / -inf (s = -1)              *)
(*   <<"float", n, d>>     the float n/d, in lowest terms, d > 0           *)
(*   <<"int", n>>          int                                             *)
(*   <<"bool", b>>         bool                                            *)
(*   <<"str", s>>          str                                             *)
(*   <<"Series", pairs>>   pandas Series: sequence of <<label, value>>     *)
(*   <<"raise", e>>        the call raised exception e                     *)
(* Floats are exact rationals: binary rounding is not modelled.            *)
(*                                                                         *)
(* Strings are kept in ASCII.  The five characters of the script and of    *)
(* its data that are not ASCII are written with ASCII characters that      *)
(* occur nowhere else in the inputs:                                       *)
(*   "$"  the currency byte '\x80'       "^"  the degree sign (U+00B0)     *)
(*   "~"  superscript two (U+00B2)       "@"  a with grave (U+00E0)        *)
(*   "&"  A with grave (U+00C0)                                            *)
(***************************************************************************)
EXTENDS Integers, Sequences, FiniteSets, TLC

VARIABLES raw, data, warning, fn, pc, result, cleaned_data, written

vars == <<raw, data, warning, fn, pc, result, cleaned_data, written>>

-----------------------------------------------------------------------------
(* Bounds *)

MaxPieces == 3

MaxRows == 2

-----------------------------------------------------------------------------
(* Python values *)

None == <<"None">>

NaN == <<"nan">>

Inf(s) == <<"inf", s>>

PyInt(n) == <<"int", n>>

PyBool(b) == <<"bool", b>>

PyStr(s) == <<"str", s>>

Series(pairs) == <<"Series", pairs>>

Raise(e) == <<"raise", e>>

RECURSIVE Gcd(_, _)
Gcd(a, b) == IF b = 0 THEN a ELSE Gcd(b, a % b)

Abs(n) == IF n < 0 THEN -n ELSE n

\* the float n/d (d # 0), in lowest terms with a positive denominator
PyFloat(n, d) ==
    LET g == Gcd(Abs(n), Abs(d))
        s == IF d < 0 THEN -1 ELSE 1
    IN  <<"float", (s * n) \div g, Abs(d) \div g>>

IsStr(v) == v[1] = "str"

IsRaise(v) == v[1] = "raise"

IsSeries(v) == v[1] = "Series"

\* pandas isna(): None and float nan are both missing values
IsNull(v) == v[1] \in {"None", "nan"}

\* series[label]: the value of the first entry carrying the label
Get(series, label) ==
    LET p == series[2]
        i == CHOOSE i \in 1..Len(p) : p[i][1] = label /\ \A j \in 1..(i - 1) : p[j][1] # label
    IN  p[i][2]

Labels(series) == [i \in 1..Len(series[2]) |-> series[2][i][1]]

-----------------------------------------------------------------------------
(* Python str operations *)

Ch(s, i) == SubSeq(s, i, i)

From(s, i) == SubSeq(s, i, Len(s))

Whitespace == {" ", "\t", "\n", "\r"}

DigitChars == "0123456789"

IsDigit(c) == \E i \in 1..10 : Ch(DigitChars, i) = c

DigitVal(c) == (CHOOSE i \in 1..10 : Ch(DigitChars, i) = c) - 1

UpperChars == "ABCDEFGHIJKLMNOPQRSTUVWXYZ&"

LowerChars == "abcdefghijklmnopqrstuvwxyz@"

IsAlpha(c) ==
    \E i \in 1..Len(UpperChars) : c = Ch(UpperChars, i) \/ c = Ch(LowerChars, i)

LowerCh(c) ==
    IF \E i \in 1..Len(UpperChars) : Ch(UpperChars, i) = c
    THEN Ch(LowerChars, CHOOSE i \in 1..Len(UpperChars) : Ch(UpperChars, i) = c)
    ELSE c

UpperCh(c) ==
    IF \E i \in 1..Len(LowerChars) : Ch(LowerChars, i) = c
    THEN Ch(UpperChars, CHOOSE i \in 1..Len(LowerChars) : Ch(LowerChars, i) = c)
    ELSE c

\* str.lower()
RECURSIVE Lower(_)
Lower(s) == IF Len(s) = 0 THEN "" ELSE LowerCh(Ch(s, 1)) \o Lower(From(s, 2))

RECURSIVE LStrip(_)
LStrip(s) == IF Len(s) > 0 /\ Ch(s, 1) \in Whitespace THEN LStrip(From(s, 2)) ELSE s

RECURSIVE RStrip(_)
RStrip(s) ==
    IF Len(s) > 0 /\ Ch(s, Len(s)) \in Whitespace THEN RStrip(SubSeq(s, 1, Len(s) - 1)) ELSE s

\* str.strip()
Strip(s) == RStrip(LStrip(s))

StartsAt(s, sub, i) == i + Len(sub) - 1 <= Len(s) /\ SubSeq(s, i, i + Len(sub) - 1) = sub

\* sub in s
Contains(sub, s) == \E i \in 1..(Len(s) - Len(sub) + 1) : StartsAt(s, sub, i)

\* str.find(), 1-based; 0 when absent
Find(sub, s) ==
    IF Contains(sub, s)
    THEN CHOOSE i \in 1..Len(s) : StartsAt(s, sub, i) /\ \A j \in 1..(i - 1) : ~StartsAt(s, sub, j)
    ELSE 0

\* str.replace(old, new): every non-overlapping occurrence, left to right
RECURSIVE Replace(_, _, _)
Replace(s, old, new) ==
    IF Len(s) < Len(old) THEN s
    ELSE IF StartsAt(s, old, 1) THEN new \o Replace(From(s, Len(old) + 1), old, new)
    ELSE Ch(s, 1) \o Replace(From(s, 2), old, new)

\* length of the run of non-whitespace characters at the start of s
WordLen(s) ==
    CHOOSE n \in 0..Len(s) :
        /\ \A i \in 1..n : Ch(s, i) \notin Whitespace
        /\ (n = Len(s) \/ Ch(s, n + 1) \in Whitespace)

\* str.split(): split on runs of whitespace, no empty parts
RECURSIVE Split(_)
Split(s) ==
    LET t == LStrip(s)
    IN  IF Len(t) = 0 THEN <<>>
        ELSE <<SubSeq(t, 1, WordLen(t))>> \o Split(From(t, WordLen(t) + 1))

\* str.split(sep): split on every occurrence of sep, empty parts kept
RECURSIVE SplitOn(_, _)
SplitOn(s, sep) ==
    IF ~Contains(sep, s) THEN <<s>>
    ELSE <<SubSeq(s, 1, Find(sep, s) - 1)>> \o SplitOn(From(s, Find(sep, s) + Len(sep)), sep)

\* sep.join(parts)
RECURSIVE Join(_, _)
Join(parts, sep) ==
    IF Len(parts) = 0 THEN ""
    ELSE IF Len(parts) = 1 THEN parts[1]
    ELSE parts[1] \o sep \o Join(Tail(parts), sep)

\* length of the maximal run of decimal digits of s that starts at position i
DigitRun(s, i) ==
    CHOOSE n \in 0..(Len(s) - i + 1) :
        /\ \A k \in i..(i + n - 1) : IsDigit(Ch(s, k))
        /\ (i + n > Len(s) \/ ~IsDigit(Ch(s, i + n)))

\* value of a string of decimal digits (underscores skipped)
RECURSIVE DecVal(_)
DecVal(s) ==
    IF Len(s) = 0 THEN 0
    ELSE IF Ch(s, Len(s)) = "_" THEN DecVal(SubSeq(s, 1, Len(s) - 1))
    ELSE DecVal(SubSeq(s, 1, Len(s) - 1)) * 10 + DigitVal(Ch(s, Len(s)))

\* number of digits of s (underscores skipped)
RECURSIVE DigitCount(_)
DigitCount(s) ==
    IF Len(s) = 0 THEN 0
    ELSE (IF Ch(s, 1) = "_" THEN 0 ELSE 1) + DigitCount(From(s, 2))

RECURSIVE Pow10(_)
Pow10(n) == IF n = 0 THEN 1 ELSE 10 * Pow10(n - 1)

\* Python's digitpart: digits, single underscores allowed between digits
IsDigitPart(s) ==
    /\ Len(s) > 0
    /\ IsDigit(Ch(s, 1))
    /\ IsDigit(Ch(s, Len(s)))
    /\ \A i \in 1..Len(s) : IsDigit(Ch(s, i)) \/ Ch(s, i) = "_"
    /\ \A i \in 1..(Len(s) - 1) : ~(Ch(s, i) = "_" /\ Ch(s, i + 1) = "_")

HasSign(s) == Len(s) > 0 /\ Ch(s, 1) \in {"+", "-"}

SignOf(s) == IF Len(s) > 0 /\ Ch(s, 1) = "-" THEN -1 ELSE 1

Unsigned(s) == IF HasSign(s) THEN From(s, 2) ELSE s

\* int(s) for a str s: the int, or ValueError
ParseInt(s) ==
    LET t == Strip(s)
        b == Unsigned(t)
    IN  IF IsDigitPart(b) THEN PyInt(SignOf(t) * DecVal(b)) ELSE Raise("ValueError")

\* float(s) for a str s: the float, or ValueError
ParseFloat(s) ==
    LET t == Strip(s)
        b == Unsigned(t)
        lb == Lower(b)
        ePos == Find("e", lb)
        mant == IF ePos = 0 THEN b ELSE SubSeq(b, 1, ePos - 1)
        expo == IF ePos = 0 THEN "" ELSE From(b, ePos + 1)
        expOk == ePos = 0 \/ IsDigitPart(Unsigned(expo))
        expVal == IF ePos = 0 THEN 0 ELSE SignOf(expo) * DecVal(Unsigned(expo))
        dot == Find(".", mant)
        ip == IF dot = 0 THEN mant ELSE SubSeq(mant, 1, dot - 1)
        fp == IF dot = 0 THEN "" ELSE From(mant, dot + 1)
        mantOk == \/ IsDigitPart(ip) /\ (Len(fp) = 0 \/ IsDigitPart(fp))
                  \/ Len(ip) = 0 /\ dot # 0 /\ IsDigitPart(fp)
        den == Pow10(DigitCount(fp))
        num == DecVal(ip) * den + DecVal(fp)
    IN  IF lb \in {"inf", "infinity"} THEN Inf(SignOf(t))
        ELSE IF lb = "nan" THEN NaN
        ELSE IF mantOk /\ expOk
        THEN IF expVal >= 0 THEN PyFloat(SignOf(t) * num * Pow10(expVal), den)
             ELSE PyFloat(SignOf(t) * num, den * Pow10(-expVal))
        ELSE Raise("ValueError")

-----------------------------------------------------------------------------
(* Regular expressions of the script *)

\* r'(\d+)LIT' matches at position i: a maximal digit run followed by lit
CountAt(s, lit, i) == DigitRun(s, i) > 0 /\ StartsAt(s, lit, i + DigitRun(s, i))

FirstCountAt(s, lit) ==
    CHOOSE i \in 1..Len(s) : CountAt(s, lit, i) /\ \A j \in 1..(i - 1) : ~CountAt(s, lit, j)

\* re.search in place of re.findall: the count of the first match only
FindFirstCount(s, lit) ==
    IF ~\E i \in 1..Len(s) : CountAt(s, lit, i) THEN <<>>
    ELSE <<DecVal(SubSeq(s, FirstCountAt(s, lit),
                         FirstCountAt(s, lit) + DigitRun(s, FirstCountAt(s, lit)) - 1))>>

\* re.findall(r'(\d+)LIT', s): the captured counts of the non-overlapping
\* matches, scanning left to right
RECURSIVE FindAllCounts(_, _)
FindAllCounts(s, lit) ==
    IF ~\E i \in 1..Len(s) : CountAt(s, lit, i) THEN <<>>
    ELSE LET i == FirstCountAt(s, lit)
             n == DigitRun(s, i)
         IN  <<DecVal(SubSeq(s, i, i + n - 1))>> \o FindAllCounts(From(s, i + n + Len(lit)), lit)

\* r'(\d+)SEP(\d+)TAIL' matches at position i
PairAt(s, sep, tail, i) ==
    /\ CountAt(s, sep, i)
    /\ DigitRun(s, i + DigitRun(s, i) + Len(sep)) > 0
    /\ StartsAt(s, tail, i + DigitRun(s, i) + Len(sep) + DigitRun(s, i + DigitRun(s, i) + Len(sep)))

\* re.search(r'(\d+)SEP(\d+)TAIL', s): <<group 1, group 2>> of the leftmost
\* match, <<>> when there is none
SearchPair(s, sep, tail) ==
    IF ~\E i \in 1..Len(s) : PairAt(s, sep, tail, i) THEN <<>>
    ELSE LET i == CHOOSE i \in 1..Len(s) : PairAt(s, sep, tail, i)
                                           /\ \A j \in 1..(i - 1) : ~PairAt(s, sep, tail, j)
             n == DigitRun(s, i)
             k == i + n + Len(sep)
             m == DigitRun(s, k)
         IN  <<DecVal(SubSeq(s, i, i + n - 1)), DecVal(SubSeq(s, k, k + m - 1))>>

sum(xs) == LET RECURSIVE S(_)
               S(i) == IF i = 0 THEN 0 ELSE xs[i] + S(i - 1)
           IN  S(Len(xs))

-----------------------------------------------------------------------------
(* Rows: a row is a function from column names to values *)

\* row[col]: the value, or KeyError
Item(row, col) == IF col \in DOMAIN row THEN row[col] ELSE Raise("KeyError")

\* row.get(col, default)
RowGet(row, col, default) == IF col \in DOMAIN row THEN row[col] ELSE default

\* the except-branch of a normalizer: the optional warning formats row[col],
\* then the normalizer yields null
Warn(row, col, warn, null) == IF warn /\ col \notin DOMAIN row THEN Raise("KeyError") ELSE null

\* a >= b on numbers (int, float, inf, nan); comparisons with nan are False
NumGe(a, b) ==
    LET num(x) == IF x[1] = "int" THEN x[2] ELSE x[2]
        den(x) == IF x[1] = "int" THEN 1 ELSE x[3]
    IN  IF a[1] = "nan" \/ b[1] = "nan" THEN FALSE
        ELSE IF a[1] = "inf" THEN a[2] = 1 \/ (b[1] = "inf" /\ b[2] = -1)
        ELSE IF b[1] = "inf" THEN b[2] = -1
        ELSE num(a) * den(b) >= num(b) * den(a)

\* a > 0 on a number
NumPos(a) == ~NumGe(PyInt(0), a) /\ a[1] # "nan"

-----------------------------------------------------------------------------
(* Numeric field parsers *)

clean_price(row, warn) ==
    LET price == Item(row, "price")
        p == Strip(Replace(Replace(Replace(price[2], "/mese", ""), "$", ""), ".", ""))
    IN  IF IsStr(price)
        THEN IF IsRaise(ParseFloat(p)) THEN Warn(row, "prezzo", warn, None) ELSE ParseFloat(p)
        ELSE price

NoFeePhrases ==
    {"n.d.", "nessuna", "nessun", "nessuno", "non indicato", "Nessuna spesa condominiale",
     "nessuna spesa condominiale", "nessun dato", "0", "zero", "null", "nulla", "nil", "-"}

clean_spese_condominio(row, warn) ==
    LET spese == Item(row, "condo_fees")
        p == Strip(Replace(Replace(spese[2], "$", ""), ".", ""))
    IN  IF IsStr(spese)
        THEN IF Lower(p) \in NoFeePhrases THEN PyFloat(0, 1)
             ELSE IF IsRaise(ParseFloat(p)) THEN Warn(row, "spese condominio", warn, None)
             ELSE ParseFloat(p)
        ELSE spese

\* clean_mq that removes the dots as the money parsers do
clean_mq_without_dots(row, warn) ==
    LET mq == Item(row, "square_meters")
        p == Strip(Replace(Replace(mq[2], "m~", ""), ".", ""))
    IN  IF IsStr(mq)
        THEN IF IsRaise(ParseFloat(p)) THEN Warn(row, "m2", warn, None) ELSE ParseFloat(p)
        ELSE mq

clean_mq(row, warn) ==
    LET mq == Item(row, "square_meters")
        p == Strip(Replace(mq[2], "m~", ""))
    IN  IF IsStr(mq)
        THEN IF IsRaise(ParseFloat(p)) THEN Warn(row, "m2", warn, None) ELSE ParseFloat(p)
        ELSE mq

clean_deposit(row, warn) ==
    LET deposit == Item(row, "deposit")
        p == Strip(Replace(Replace(deposit[2], "$", ""), ".", ""))
    IN  IF IsStr(deposit)
        THEN IF IsRaise(ParseFloat(p)) THEN Warn(row, "deposit", warn, None) ELSE ParseFloat(p)
        ELSE deposit

clean_anno_di_costruzione(row, warn) ==
    LET anno == Item(row, "year_built")
        p == Strip(anno[2])
    IN  IF IsStr(anno)
        THEN IF IsRaise(ParseInt(p)) THEN Warn(row, "anno_di_costruzione", warn, None)
             ELSE ParseInt(p)
        ELSE anno

clean_disponibilita(row, warn) ==
    LET disponibilita == Item(row, "availability")
    IN  IF IsStr(disponibilita)
        THEN PyBool(Contains("libero", Strip(Lower(disponibilita[2]))))
        ELSE disponibilita

-----------------------------------------------------------------------------
(* Count parsers *)

\* a Series, unless building one of its values raised
SeriesOr(v, pairs) == IF IsRaise(v) THEN v ELSE Series(pairs)

\* clean_rooms that recognises the capped notation on the untrimmed text only
clean_rooms_untrimmed_cap(row, warn) ==
    LET stanze == Item(row, "rooms")
        s == Strip(stanze[2])
        null == Warn(row, "stanze", warn, None)
    IN  IF IsRaise(stanze) THEN stanze
        ELSE IF IsStr(stanze)
        THEN IF stanze[2] = "5+"
             THEN Series(<< <<"rooms", PyInt(5)>>, <<"more_than_5_rooms", PyBool(TRUE)>> >>)
             ELSE IF IsRaise(ParseInt(s))
             THEN SeriesOr(null, << <<"rooms", None>>, <<"more_than_5_rooms", None>> >>)
             ELSE Series(<< <<"rooms", ParseInt(s)>>, <<"more_than_5_rooms", PyBool(FALSE)>> >>)
        ELSE Series(<< <<"rooms", stanze>>, <<"more_than_5_rooms", PyBool(FALSE)>> >>)

clean_rooms(row, warn) ==
    LET stanze == Item(row, "rooms")
        s == Strip(stanze[2])
        null == Warn(row, "stanze", warn, None)
    IN  IF IsRaise(stanze) THEN stanze
        ELSE IF IsStr(stanze)
        THEN IF s = "5+"
             THEN Series(<< <<"rooms", PyInt(5)>>, <<"more_than_5_rooms", PyBool(TRUE)>> >>)
             ELSE IF IsRaise(ParseInt(s))
             THEN SeriesOr(null, << <<"rooms", None>>, <<"more_than_5_rooms", None>> >>)
             ELSE Series(<< <<"rooms", ParseInt(s)>>, <<"more_than_5_rooms", PyBool(FALSE)>> >>)
        ELSE Series(<< <<"rooms", stanze>>, <<"more_than_5_rooms", PyBool(FALSE)>> >>)

clean_bathrooms(row, warn) ==
    LET bagni == Item(row, "bathrooms")
        s == Strip(bagni[2])
        null == Warn(row, "bagni", warn, None)
    IN  IF IsRaise(bagni) THEN bagni
        ELSE IF IsStr(bagni)
        THEN IF s = "3+"
             THEN Series(<< <<"bathrooms", PyInt(3)>>, <<"more_than_3_bathrooms", PyBool(TRUE)>> >>)
             ELSE IF IsRaise(ParseInt(s))
             THEN SeriesOr(null, << <<"bathrooms", None>>, <<"more_than_3_bathrooms", PyBool(FALSE)>> >>)
             ELSE Series(<< <<"bathrooms", ParseInt(s)>>, <<"more_than_3_bathrooms", PyBool(FALSE)>> >>)
        ELSE Series(<< <<"bathrooms", bagni>>, <<"more_than_3_bathrooms", PyBool(FALSE)>> >>)

-----------------------------------------------------------------------------
(* Floor parser *)

\* clean_floor, lines 85-94: the total-floors field as read by the normalizer
totale_piani_edificio(row, warn) ==
    LET t == RowGet(row, "totale piani edificio", None)
    IN  IF IsStr(t)
        THEN IF Len(Split(t[2])) = 0 THEN Raise("IndexError")
             ELSE IF IsRaise(ParseInt(Split(t[2])[1]))
             THEN Warn(row, "totale piani edificio", warn, None)
             ELSE ParseInt(Split(t[2])[1])
        ELSE t

\* clean_floor, lines 113-117: int() of the first part that holds a degree sign
OrdinalOf(piano) ==
    LET parts == Split(Replace(piano, ",", " "))
        i == CHOOSE i \in 1..Len(parts) :
                 Contains("^", parts[i]) /\ \A j \in 1..(i - 1) : ~Contains("^", parts[j])
    IN  ParseInt(Replace(parts[i], "^", ""))

\* the chain with the raised-ground-floor test ahead of the ground-floor test
FloorBranchRaisedFirst(piano) ==
    IF Contains("seminterrato", piano) THEN "seminterrato"
    ELSE IF Contains("piano rialzato", piano) THEN "rialzato"
    ELSE IF Contains("piano terra", piano) \/ Contains("terra", piano) THEN "terra"
    ELSE IF Contains("^", piano) THEN "ordinal"
    ELSE "else"

\* clean_floor, lines 104-127: the branch of the if/elif chain that is taken
FloorBranch(piano) ==
    IF Contains("seminterrato", piano) THEN "seminterrato"
    ELSE IF Contains("piano terra", piano) \/ Contains("terra", piano) THEN "terra"
    ELSE IF Contains("piano rialzato", piano) THEN "rialzato"
    ELSE IF Contains("^", piano) THEN "ordinal"
    ELSE "else"

clean_floor(row, warn) ==
    LET piano0 == Item(row, "floor")
        totale == totale_piani_edificio(row, warn)
        p0 == Strip(Lower(piano0[2]))
        ascensore == IsStr(piano0) /\ Contains("ascensore", p0)
        p1 == IF ascensore THEN Strip(Replace(p0, "ascensore", "")) ELSE p0
        accesso_disabili == IsStr(piano0) /\ Contains("accesso disabili", p1)
        piano == IF accesso_disabili THEN Strip(Replace(p1, "accesso disabili", "")) ELSE p1
        branch == IF IsStr(piano0) THEN FloorBranch(piano) ELSE "none"
        failed == branch = "ordinal" /\ IsRaise(OrdinalOf(piano))
        floor_value == CASE branch = "seminterrato" -> PyInt(-1)
                         [] branch = "terra" -> PyInt(0)
                         [] branch = "rialzato" -> PyInt(0)
                         [] branch = "ordinal" /\ ~failed -> OrdinalOf(piano)
                         [] OTHER -> None
        ultimo_piano == /\ branch = "ordinal"
                        /\ totale # None
                        /\ floor_value # None
                        /\ NumGe(floor_value, totale)
        multi_floor == branch = "else" /\ Len(piano) > 2 /\ Ch(piano, 2) # "^"
    IN  IF IsRaise(piano0) THEN piano0
        ELSE IF IsRaise(totale) THEN totale
        ELSE IF failed /\ IsRaise(Warn(row, "piano", warn, None)) THEN Raise("KeyError")
        ELSE Series(<< <<"floor", floor_value>>,
                       <<"lift", PyBool(ascensore)>>,
                       <<"disabled_access", PyBool(accesso_disabili)>>,
                       <<"raised_floor", PyBool(branch = "rialzato")>>,
                       <<"multi_floor", PyBool(multi_floor)>>,
                       <<"total_floors_building", totale>>,
                       <<"last_floor", PyBool(ultimo_piano)>> >>)

-----------------------------------------------------------------------------
(* Contract, room-composition, parking and condition parsers *)

\* clean_contratto that leaves the durations null when the text has no N+M
clean_contratto_null_durations(row, warn) ==
    LET contratto0 == Item(row, "contract")
        contratto == Lower(contratto0[2])
        has(k) == PyBool(IsStr(contratto0) /\ Contains(k, contratto))
        match == SearchPair(contratto, "+", "")
        durata(g) == IF IsStr(contratto0) /\ Len(match) = 2 THEN PyInt(match[g]) ELSE None
    IN  IF IsRaise(contratto0) THEN contratto0
        ELSE Series(<< <<"rent", has("affitto")>>,
                       <<"free_rent", has("libero")>>,
                       <<"rent_min_duration", durata(1)>>,
                       <<"rent_renewal_duration", durata(2)>>,
                       <<"controlled_rent", has("concordato")>>,
                       <<"short_term_rent", has("transitorio")>>,
                       <<"student_rent", has("studenti")>>,
                       <<"buyout_rent", has("riscatto")>>,
                       <<"income_property", has("immobile a reddito")>> >>)

clean_contratto(row, warn) ==
    LET contratto0 == Item(row, "contract")
        contratto == Lower(contratto0[2])
        has(k) == PyBool(IsStr(contratto0) /\ Contains(k, contratto))
        match == SearchPair(contratto, "+", "")
        durata(g) == IF ~IsStr(contratto0) THEN None
                     ELSE IF Len(match) = 2 THEN PyInt(match[g])
                     ELSE PyInt(0)
    IN  IF IsRaise(contratto0) THEN contratto0
        ELSE Series(<< <<"rent", has("affitto")>>,
                       <<"free_rent", has("libero")>>,
                       <<"rent_min_duration", durata(1)>>,
                       <<"rent_renewal_duration", durata(2)>>,
                       <<"controlled_rent", has("concordato")>>,
                       <<"short_term_rent", has("transitorio")>>,
                       <<"student_rent", has("studenti")>>,
                       <<"buyout_rent", has("riscatto")>>,
                       <<"income_property", has("immobile a reddito")>> >>)

\* [a-z] in place of [a-z\s]
IsKitchenCharLetter(c) == \E i \in 1..26 : Ch(LowerChars, i) = c

\* [a-z\s]
IsKitchenChar(c) == c \in Whitespace \/ \E i \in 1..26 : Ch(LowerChars, i) = c

\* length of the maximal run of [a-z\s] characters of s that starts at i
KitchenRun(s, i) ==
    CHOOSE n \in 0..(Len(s) - i + 1) :
        /\ \A k \in i..(i + n - 1) : IsKitchenChar(Ch(s, k))
        /\ (i + n > Len(s) \/ ~IsKitchenChar(Ch(s, i + n)))

\* r'cucina ([a-z\s]+)' matches at position i
CucinaAt(s, i) == StartsAt(s, "cucina ", i) /\ KitchenRun(s, i + 7) > 0

clean_locali(row, warn) ==
    LET locali0 == Item(row, "rooms_details")
        locali == locali0[2]
        str == IsStr(locali0)
        hasTotale == str /\ \E i \in 1..Len(locali) : IsDigit(Ch(locali, i))
        iTot == CHOOSE i \in 1..Len(locali) :
                    IsDigit(Ch(locali, i)) /\ \A j \in 1..(i - 1) : ~IsDigit(Ch(locali, j))
        totale_locali ==
            IF hasTotale
            THEN DecVal(Replace(SubSeq(locali, iTot, iTot + DigitRun(locali, iTot) - 1), "+", ""))
            ELSE 0
        match_locali == IF str THEN SearchPair(locali, " camere da letto, ", " altri") ELSE <<>>
        hasCucina == str /\ \E i \in 1..Len(locali) : CucinaAt(locali, i)
        iCuc == CHOOSE i \in 1..Len(locali) :
                    CucinaAt(locali, i) /\ \A j \in 1..(i - 1) : ~CucinaAt(locali, j)
        tipo_cucina ==
            IF hasCucina
            THEN Strip(SubSeq(locali, iCuc + 7, iCuc + 6 + KitchenRun(locali, iCuc + 7)))
            ELSE ""
    IN  IF IsRaise(locali0) THEN locali0
        ELSE Series(<< <<"room_total", PyInt(totale_locali)>>,
                       <<"bedrooms", PyInt(IF Len(match_locali) = 2 THEN match_locali[1] ELSE 0)>>,
                       <<"other_rooms", PyInt(IF Len(match_locali) = 2 THEN match_locali[2] ELSE 0)>>,
                       <<"kitchen_type", PyStr(tipo_cucina)>>,
                       <<"tennis_court", PyBool(str /\ Contains("campo da tennis", locali))>> >>)

parse_parking(row) ==
    LET posti_auto == Item(row, "parking_spaces")
        count(lit) == IF IsStr(posti_auto) THEN PyInt(sum(FindAllCounts(posti_auto[2], lit)))
                      ELSE PyInt(0)
    IN  IF IsRaise(posti_auto) THEN posti_auto
        ELSE Series(<< <<"garage_box", count(" in garage/box")>>,
                       <<"outdoor_parking", count(" all'esterno")>>,
                       <<"common_parking", count(" in parcheggio/garage comune")>>,
                       <<"private_box", count(" in box privato/box in garage")>> >>)

parse_stato(row) ==
    LET stato == Item(row, "condition")
        split == SplitOn(stato[2], "/")
        parts == [i \in 1..Len(split) |-> Strip(split[i])]
        stato_condition == IF IsStr(stato) /\ Len(parts) \in {1, 2} THEN PyStr(parts[1])
                           ELSE PyStr("Unknown")
        stato_renovation == IF IsStr(stato) /\ Len(parts) = 2 THEN PyStr(parts[2]) ELSE None
    IN  IF IsRaise(stato) THEN stato
        ELSE Series(<< <<"stato_condition", stato_condition>>,
                       <<"stato_renovation", stato_renovation>> >>)

-----------------------------------------------------------------------------
(* Keyword-bag extractors *)

\* any(x in text for x in phrases)
any(phrases, text) == \E x \in phrases : Contains(x, text)

\* a Series of booleans: one entry per key, True for the keys in the set
FlagSeries(keys, true) == Series([i \in 1..Len(keys) |-> <<keys[i], PyBool(keys[i] \in true)>>])

property_types ==
    <<"condominium", "penthouse", "single_family_villa", "semi_detached_villa",
      "multi_family_villa", "open_space", "attic", "loft", "building", "farmhouse",
      "terraced_house_single", "terraced_house_multi", "prestigious_class", "middle_class",
      "economical_class", "luxury_property", "full_ownership", "partial_ownership",
      "right_of_surface", "bare_ownership", "usufruct", "timeshare">>

italian_to_english ==
    << <<"condominio", "condominium">>, <<"attico", "penthouse">>,
       <<"villa unifamiliare", "single_family_villa">>,
       <<"villa bifamiliare", "semi_detached_villa">>,
       <<"villa plurifamiliare", "multi_family_villa">>, <<"open space", "open_space">>,
       <<"mansarda", "attic">>, <<"loft", "loft">>, <<"palazzo", "building">>,
       <<"edificio", "building">>, <<"casale", "farmhouse">>,
       <<"terratetto unifamiliare", "terraced_house_single">>,
       <<"terratetto plurifamiliare", "terraced_house_multi">>,
       <<"classe signorile", "prestigious_class">>, <<"classe media", "middle_class">>,
       <<"classe economica", "economical_class">>, <<"immobile di lusso", "luxury_property">>,
       <<"intera propriet@", "full_ownership">>, <<"parziale propriet@", "partial_ownership">>,
       <<"diritto di superficie", "right_of_surface">>, <<"nuda propriet@", "bare_ownership">>,
       <<"usufrutto", "usufruct">>, <<"multipropriet@", "timeshare">>,
       <<"multiproprieta", "timeshare">> >>

parse_housetype(row) ==
    LET housetype == RowGet(row, "property_type", RowGet(row, "tipologia", None))
        lower_ht == Lower(housetype[2])
        true == IF IsStr(housetype)
                THEN {italian_to_english[i][2] : i \in {k \in 1..Len(italian_to_english) :
                                                          Contains(italian_to_english[k][1], lower_ht)}}
                ELSE {}
    IN  FlagSeries(property_types, true)

\* clean_riscaldamento whose gas flag does not exclude the texts with gasolio
clean_riscaldamento_gas_with_diesel(row, warn) ==
    LET riscaldamento0 == Item(row, "heating")
        riscaldamento == Lower(riscaldamento0[2])
        in(k) == IsStr(riscaldamento0) /\ Contains(k, riscaldamento)
        flag(b) == PyBool(b)
    IN  IF IsRaise(riscaldamento0) THEN riscaldamento0
        ELSE Series(<< <<"heating_autonomous", flag(in("autonomo"))>>,
                       <<"heating_centralized", flag(in("centralizzato"))>>,
                       <<"heating_radiators", flag(in("radiatori"))>>,
                       <<"heating_floor", flag(in("pavimento"))>>,
                       <<"heating_air", flag(in("aria"))>>,
                       <<"heating_stove", flag(in("stufa"))>>,
                       <<"heating_gas", flag(in("gas"))>>,
                       <<"heating_methane", flag(in("metano"))>>,
                       <<"heating_gpl", flag(in("gpl"))>>,
                       <<"heating_diesel", flag(in("gasolio"))>>,
                       <<"heating_heat_pump", flag(in("pompa di calore"))>>,
                       <<"heating_district_heating", flag(in("teleriscaldamento"))>>,
                       <<"heating_photovoltaic", flag(in("fotovoltaico"))>>,
                       <<"heating_solar", flag(in("solare"))>>,
                       <<"heating_electric", flag(in("elettrica") \/ in("elettrico"))>>,
                       <<"heating_pellet", flag(in("pellet"))>> >>)

clean_riscaldamento(row, warn) ==
    LET riscaldamento0 == Item(row, "heating")
        riscaldamento == Lower(riscaldamento0[2])
        in(k) == IsStr(riscaldamento0) /\ Contains(k, riscaldamento)
        flag(b) == PyBool(b)
    IN  IF IsRaise(riscaldamento0) THEN riscaldamento0
        ELSE Series(<< <<"heating_autonomous", flag(in("autonomo"))>>,
                       <<"heating_centralized", flag(in("centralizzato"))>>,
                       <<"heating_radiators", flag(in("radiatori"))>>,
                       <<"heating_floor", flag(in("pavimento"))>>,
                       <<"heating_air", flag(in("aria"))>>,
                       <<"heating_stove", flag(in("stufa"))>>,
                       <<"heating_gas", flag(in("gas") /\ ~in("gasolio"))>>,
                       <<"heating_methane", flag(in("metano"))>>,
                       <<"heating_gpl", flag(in("gpl"))>>,
                       <<"heating_diesel", flag(in("gasolio"))>>,
                       <<"heating_heat_pump", flag(in("pompa di calore"))>>,
                       <<"heating_district_heating", flag(in("teleriscaldamento"))>>,
                       <<"heating_photovoltaic", flag(in("fotovoltaico"))>>,
                       <<"heating_solar", flag(in("solare"))>>,
                       <<"heating_electric", flag(in("elettrica") \/ in("elettrico"))>>,
                       <<"heating_pellet", flag(in("pellet"))>> >>)

clean_air_conditioning(row, warn) ==
    LET climatizzatore0 == Item(row, "air_conditioning")
        climatizzatore == Lower(climatizzatore0[2])
        flag(k) == PyBool(IsStr(climatizzatore0) /\ Contains(k, climatizzatore))
    IN  IF IsRaise(climatizzatore0) THEN climatizzatore0
        ELSE Series(<< <<"air_conditioning_autonomous", flag("autonomo")>>,
                       <<"air_conditioning_centralized", flag("centralizzato")>>,
                       <<"air_conditioning_prearranged", flag("predisposizione")>>,
                       <<"air_conditioning_cold", flag("freddo")>>,
                       <<"air_conditioning_hot", flag("caldo")>>,
                       <<"air_conditioning_absent", flag("assente")>> >>)

\* r'(\d+(?:[.,]\d+)?)' at position i: <<integer digits, fraction digits>>
ConsumoAt(s, i) ==
    LET n == DigitRun(s, i)
        frac == /\ i + n <= Len(s)
                /\ Ch(s, i + n) \in {".", ","}
                /\ DigitRun(s, i + n + 1) > 0
    IN  <<SubSeq(s, i, i + n - 1),
          IF frac THEN SubSeq(s, i + n + 1, i + n + DigitRun(s, i + n + 1)) ELSE "">>

clean_energy_efficiency(row, warn) ==
    LET efficienza0 == Item(row, "energy_efficiency")
        efficienza == Strip(efficienza0[2])
        str == IsStr(efficienza0)
        classe == IF str /\ Len(efficienza) > 0 /\ IsAlpha(Ch(efficienza, 1))
                  THEN PyStr(UpperCh(Ch(efficienza, 1)))
                  ELSE None
        hasMatch == str /\ \E i \in 1..Len(efficienza) : IsDigit(Ch(efficienza, i))
        iM == CHOOSE i \in 1..Len(efficienza) :
                  IsDigit(Ch(efficienza, i)) /\ \A j \in 1..(i - 1) : ~IsDigit(Ch(efficienza, j))
        m == ConsumoAt(efficienza, iM)
        consumo_kwh == IF hasMatch
                       THEN ParseFloat(IF Len(m[2]) > 0 THEN m[1] \o "." \o m[2] ELSE m[1])
                       ELSE None
    IN  IF IsRaise(efficienza0) THEN efficienza0
        ELSE Series(<< <<"energy_efficiency_class", classe>>,
                       <<"energy_efficiency_consumption_kwh", consumo_kwh>> >>)

features ==
    <<"terrace", "reception", "jacuzzi", "elevator", "south_facing", "tv_system", "concierge",
      "balconies", "tavern", "furnished_kitchen", "video_intercom", "garage_box",
      "swimming_pool", "cellar", "fireplace", "double_exposure", "furnished", "garden",
      "built_in_wardrobe", "ground_floor", "attic", "internal_exposure", "electric_gate",
      "external_exposure", "high_quality_windows", "disabled_access", "east_facing",
      "tennis_court", "alarm_system", "fiber_optic", "security_door">>

\* parse_additional_features, lines 568-629: the phrases that set each flag
feature_phrases ==
    << <<"balconies", {"balconi", "1 balcone", "2 balconi", "3 balconi", "4 balconi",
                       "5 balconi", "6 balconi", "8 balconi", "18 balconi"}>>,
       <<"tv_system", {"impianto tv singolo", "impianto tv centralizzato",
                       "impianto tv con parabola"}>>,
       <<"concierge", {"portiere intera giornata", "portiere mezza giornata"}>>,
       <<"garden", {"giardino privato", "giardino comune", "giardino privato e comune"}>>,
       <<"furnished_kitchen", {"solo cucina arredata", "parzialmente arredato"}>>,
       <<"garage_box", {"box", "garage", "box/garage privato", "1 in box/garage privato"}>>,
       <<"high_quality_windows", {"infissi", "doppio vetro", "triplo vetro"}>>,
       <<"security_door", {"security door"}>>,
       <<"terrace", {"terrace"}>>,
       <<"reception", {"reception"}>>,
       <<"jacuzzi", {"jacuzzi"}>>,
       <<"elevator", {"elevator", "con ascensore"}>>,
       <<"south_facing", {"south facing"}>>,
       <<"tavern", {"tavern"}>>,
       <<"video_intercom", {"video intercom"}>>,
       <<"swimming_pool", {"swimming pool"}>>,
       <<"cellar", {"cellar"}>>,
       <<"fireplace", {"fireplace"}>>,
       <<"double_exposure", {"double exposure"}>>,
       <<"furnished", {"furnished"}>>,
       <<"built_in_wardrobe", {"built-in wardrobe"}>>,
       <<"ground_floor", {"ground floor"}>>,
       <<"attic", {"attic"}>>,
       <<"internal_exposure", {"internal exposure"}>>,
       <<"electric_gate", {"electric gate"}>>,
       <<"external_exposure", {"external exposure"}>>,
       <<"disabled_access", {"disabled access", "con accesso disabili"}>>,
       <<"east_facing", {"east facing"}>>,
       <<"tennis_court", {"tennis court"}>>,
       <<"alarm_system", {"alarm system"}>>,
       <<"fiber_optic", {"fiber optic"}>> >>

parse_additional_features(row) ==
    LET caratteristiche_str == Item(row, "other_features")
        split == SplitOn(caratteristiche_str[2], ",")
        caratteristiche_lower == [i \in 1..Len(split) |-> Lower(Strip(split[i]))]
        caratteristiche_str_lower == Join(caratteristiche_lower, " ")
        true == IF IsStr(caratteristiche_str)
                THEN {feature_phrases[i][1] : i \in {k \in 1..Len(feature_phrases) :
                          any(feature_phrases[k][2], caratteristiche_str_lower)}}
                ELSE {}
    IN  IF IsRaise(caratteristiche_str) THEN caratteristiche_str
        ELSE FlagSeries(features, true)

\* truth value of a Python object used as a condition
Truthy(v) ==
    CASE v[1] = "str" -> Len(v[2]) > 0
      [] v[1] = "bool" -> v[2]
      [] v[1] = "int" -> v[2] # 0
      [] v[1] = "None" -> FALSE
      [] OTHER -> TRUE

\* a or b, where a is an object and b a condition: a's truth value decides
\* first ("x" or "y" in d  parses as  "x" or ("y" in d))
Or(a, b) == Truthy(a) \/ b

parse_description(row) ==
    LET description0 == Item(row, "description")
        description == Lower(description0[2])
        str == IsStr(description0)
        in(k) == Contains(k, description)
        flag(b) == PyInt(IF str /\ b THEN 1 ELSE 0)
    IN  IF IsRaise(description0) THEN description0
        ELSE Series(<< <<"subway", flag(Or(PyStr("metro"), in("metropolitana")))>>,
                       <<"station", flag(Or(PyStr("stazione"), in("treno")))>>,
                       <<"university", flag(Or(PyStr("universita"), in("universit@")))>>,
                       <<"hospital", flag(in("ospedale"))>>,
                       <<"park", flag(in("parco"))>>,
                       <<"shower", flag(in("doccia"))>>,
                       <<"bathtub", flag(in("vasca"))>>,
                       <<"bright", flag(Or(PyStr("luminoso"), in("luminosa")))>>,
                       <<"quiet", flag(Or(PyStr("silenzioso"), in("silenziosa")))>>,
                       <<"wardrobe", flag(in("guardaroba"))>>,
                       <<"market", flag(Or(PyStr("mercato"), Or(PyStr("supermercato"),
                                        Or(PyStr("super market"), in("supermarket")))))>> >>)

-----------------------------------------------------------------------------
(* Municipality join *)

\* the reference table read at line 692 (a sample of it: names as written in
\* the file, with the casing, padding, duplicates and gaps such a file has)
municipio_df ==
    << [Quartiere |-> PyStr("Trastevere"), Municipio |-> PyInt(1),
        InsideGRA |-> PyBool(TRUE), Zone |-> PyStr("Centro")],
       [Quartiere |-> PyStr(" Ostia "), Municipio |-> PyInt(10),
        InsideGRA |-> PyBool(FALSE), Zone |-> PyStr("Mare")],
       [Quartiere |-> NaN, Municipio |-> PyInt(3),
        InsideGRA |-> PyBool(TRUE), Zone |-> PyStr("Nord")],
       [Quartiere |-> PyStr("EUR"), Municipio |-> PyInt(9),
        InsideGRA |-> PyBool(TRUE), Zone |-> PyStr("Sud")],
       [Quartiere |-> PyStr("trastevere"), Municipio |-> PyInt(12),
        InsideGRA |-> PyBool(TRUE), Zone |-> PyStr("Ovest")] >>

add_municipio(row) ==
    LET municipio_df_lower ==
            [i \in 1..Len(municipio_df) |->
                IF IsStr(municipio_df[i].Quartiere)
                THEN PyStr(Strip(Lower(municipio_df[i].Quartiere[2])))
                ELSE municipio_df[i].Quartiere]
        quartiere0 == Item(row, "neighborhood")
        quartiere == PyStr(Strip(Lower(quartiere0[2])))
        match == {i \in 1..Len(municipio_df) : municipio_df_lower[i] = quartiere}
        first == CHOOSE i \in match : \A j \in match : i <= j
    IN  IF IsRaise(quartiere0) THEN quartiere0
        ELSE IF IsStr(quartiere0) /\ match # {}
        THEN Series(<< <<"municipality", municipio_df[first].Municipio>>,
                       <<"InsideGRA", municipio_df[first].InsideGRA>>,
                       <<"zone", municipio_df[first].Zone>> >>)
        ELSE None

-----------------------------------------------------------------------------
(* pandas: a table is [columns |-> sequence of labels, rows |-> sequence of *)
(* rows, each a sequence of values aligned with the labels]                *)

\* pd.DataFrame()
EmptyFrame == [columns |-> <<>>, rows |-> <<>>]

\* data.apply(f, axis=1), as the sequence of the per-row results
Apply(f(_), table) == [i \in 1..Len(table) |-> f(table[i])]

Raised(results) == \E i \in 1..Len(results) : IsRaise(results[i])

\* the table pandas builds from the results of apply: when the first result
\* is a Series its labels become the columns, and a row whose result is not
\* a Series is filled with missing values; otherwise the results stay in one
\* unnamed column (label 0)
ToFrame(results) ==
    IF IsSeries(results[1])
    THEN [columns |-> Labels(results[1]),
          rows |-> [i \in 1..Len(results) |->
                      [k \in 1..Len(results[1][2]) |->
                          IF IsSeries(results[i]) THEN Get(results[i], results[1][2][k][1])
                          ELSE NaN]]]
    ELSE [columns |-> <<"0">>, rows |-> [i \in 1..Len(results) |-> <<results[i]>>]]

\* pd.concat([a, b], axis=1): the columns of b after those of a, row by row
Concat(a, b) ==
    [columns |-> a.columns \o b.columns,
     rows |-> [i \in 1..Len(b.rows) |-> (IF i <= Len(a.rows) THEN a.rows[i] ELSE <<>>) \o b.rows[i]]]

ColumnIndex(table, label) ==
    CHOOSE k \in 1..Len(table.columns) :
        table.columns[k] = label /\ \A j \in 1..(k - 1) : table.columns[j] # label

HasColumn(table, label) == \E k \in 1..Len(table.columns) : table.columns[k] = label

\* table[label]: the values of the (first) column carrying the label
Column(table, label) == [i \in 1..Len(table.rows) |-> table.rows[i][ColumnIndex(table, label)]]

\* table[label] = values
SetColumn(table, label, values) ==
    IF HasColumn(table, label)
    THEN [table EXCEPT !.rows = [i \in 1..Len(values) |->
                                    [table.rows[i] EXCEPT ![ColumnIndex(table, label)] = values[i]]]]
    ELSE [columns |-> Append(table.columns, label),
          rows |-> [i \in 1..Len(values) |->
                      Append(IF i <= Len(table.rows) THEN table.rows[i] ELSE <<>>, values[i])]]

\* a / b on numeric columns; a missing operand gives nan, x / 0 gives inf or nan
Divide(a, b) ==
    LET num(x) == x[2]
        den(x) == IF x[1] = "int" THEN 1 ELSE x[3]
    IN  IF IsNull(a) \/ IsNull(b) THEN NaN
        ELSE IF num(b) = 0
        THEN IF num(a) = 0 THEN NaN ELSE Inf(IF num(a) > 0 THEN 1 ELSE -1)
        ELSE PyFloat(num(a) * den(b), den(a) * num(b))

\* characters in code point order (the five stand-ins last, as the characters
\* they stand for), for sorting labels
CodeOrder ==
    "\t\n\r !\"#%'()*+,-./0123456789:;<=>?ABCDEFGHIJKLMNOPQRSTUVWXYZ[\\]_abcdefghijklmnopqrstuvwxyz{|}$^~&@"

Rank(c) == CHOOSE i \in 1..Len(CodeOrder) : Ch(CodeOrder, i) = c

RECURSIVE StrLess(_, _)
StrLess(a, b) ==
    IF Len(b) = 0 THEN FALSE
    ELSE IF Len(a) = 0 THEN TRUE
    ELSE IF Ch(a, 1) = Ch(b, 1) THEN StrLess(From(a, 2), From(b, 2))
    ELSE Rank(Ch(a, 1)) < Rank(Ch(b, 1))

RECURSIVE Sorted(_)
Sorted(S) ==
    IF S = {} THEN <<>>
    ELSE LET m == CHOOSE x \in S : \A y \in S \ {x} : StrLess(x, y)
         IN  <<m>> \o Sorted(S \ {m})

\* get_dummies that counts a missing value as a member of every category
get_dummies_missing_in_all(values, prefix) ==
    LET cats == Sorted({values[i][2] : i \in {k \in 1..Len(values) : IsStr(values[k])}})
    IN  [columns |-> [k \in 1..Len(cats) |-> prefix \o "_" \o cats[k]],
         rows |-> [i \in 1..Len(values) |->
                     [k \in 1..Len(cats) |-> PyBool(values[i] = PyStr(cats[k]) \/ IsNull(values[i]))]]]

\* pd.get_dummies(values, prefix=prefix): one boolean column per distinct
\* non-missing value, in sorted order
get_dummies(values, prefix) ==
    LET cats == Sorted({values[i][2] : i \in {k \in 1..Len(values) : IsStr(values[k])}})
    IN  [columns |-> [k \in 1..Len(cats) |-> prefix \o "_" \o cats[k]],
         rows |-> [i \in 1..Len(values) |->
                     [k \in 1..Len(cats) |-> PyBool(values[i] = PyStr(cats[k]))]]]

-----------------------------------------------------------------------------
(* The raw table and its renaming *)

column_rename_map ==
    ("prezzo" :> "price") @@ ("spese condominio" :> "condo_fees") @@ ("m2" :> "square_meters")
    @@ ("stanze" :> "rooms") @@ ("piano" :> "floor")
    @@ ("totale piani edificio" :> "total_floors") @@ ("contratto" :> "contract")
    @@ ("locali" :> "rooms_details") @@ ("bagni" :> "bathrooms")
    @@ ("Posti Auto" :> "parking_spaces") @@ ("stato" :> "condition")
    @@ ("tipologia" :> "property_type") @@ ("disponibilit@" :> "availability")
    @@ ("anno di costruzione" :> "year_built") @@ ("riscaldamento" :> "heating")
    @@ ("Climatizzatore" :> "air_conditioning")
    @@ ("Efficienza energetica" :> "energy_efficiency")
    @@ ("altre caratteristiche" :> "other_features") @@ ("cauzione" :> "deposit")
    @@ ("quartiere" :> "neighborhood") @@ ("description" :> "description")

\* the columns of rome_rents_raw.csv that the pipeline reads
RawColumns == DOMAIN column_rename_map

RenameColumn(c) == IF c \in DOMAIN column_rename_map THEN column_rename_map[c] ELSE c

\* data.rename(columns=column_rename_map), on one row
RenameRow(row) ==
    [c \in {RenameColumn(k) : k \in DOMAIN row} |->
        row[CHOOSE k \in DOMAIN row : RenameColumn(k) = c]]

Rename(table) == [i \in 1..Len(table) |-> RenameRow(table[i])]

\* a row of the raw table with every cell empty
EmptyRow == [c \in RawColumns |-> NaN]

-----------------------------------------------------------------------------
(* Inputs *)

\* the texts made of at most n of the pieces
RECURSIVE Texts(_, _)
Texts(P, n) ==
    IF n = 0 THEN {""}
    ELSE Texts(P, n - 1) \cup {t \o p : t \in Texts(P, n - 1), p \in P}

\* the normalizers, with the raw column each one reads once renamed
Normalizers ==
    << <<"clean_price", "prezzo">>, <<"clean_spese_condominio", "spese condominio">>,
       <<"clean_mq", "m2">>, <<"clean_rooms", "stanze">>, <<"clean_floor", "piano">>,
       <<"clean_contratto", "contratto">>, <<"clean_locali", "locali">>,
       <<"clean_bathrooms", "bagni">>, <<"parse_parking", "Posti Auto">>,
       <<"parse_stato", "stato">>, <<"parse_housetype", "tipologia">>,
       <<"clean_disponibilita", "disponibilit@">>,
       <<"clean_anno_di_costruzione", "anno di costruzione">>,
       <<"clean_riscaldamento", "riscaldamento">>,
       <<"clean_air_conditioning", "Climatizzatore">>,
       <<"clean_energy_efficiency", "Efficienza energetica">>,
       <<"parse_additional_features", "altre caratteristiche">>,
       <<"parse_description", "description">>, <<"clean_deposit", "cauzione">>,
       <<"add_municipio", "quartiere">> >>

NormalizerNames == {Normalizers[i][1] : i \in 1..Len(Normalizers)}

RawField(f) == Normalizers[CHOOSE i \in 1..Len(Normalizers) : Normalizers[i][1] = f][2]

\* the fragments the input texts of each normalizer are made of
Pieces(f) ==
    CASE f = "clean_price" -> {"1", ".20", ".", "/mese", "$ ", " ", "abc", "-"}
      [] f = "clean_spese_condominio" -> {"n.d.", "Nessuna", " ", "0", "-", "$", ".", "50"}
      [] f = "clean_mq" -> {"85", ".", "5", "m~", " ", ",", "mq"}
      [] f = "clean_rooms" -> {"5", "+", "3", " ", "12", "abc", "-"}
      [] f = "clean_bathrooms" -> {"3", "+", "2", " ", "10", "abc", "-"}
      [] f = "clean_floor" -> {"3^", "^", "1", "Ascensore", "accesso disabili", "terra",
                               "Piano rialzato", "seminterrato", " ", ", "}
      [] f = "clean_contratto" -> {"Affitto", "libero", "concordato", "transitorio", "studenti",
                                   "riscatto", "immobile a reddito", "4", "12", "+"}
      [] f = "clean_locali" -> {"3", "+", "2 camere da letto, ", "1 altri", "cucina ",
                                "abitabile", "campo da tennis", ", ", "A"}
      [] f = "parse_parking" -> {"2 in garage/box", "1 in garage/box", "1", " all'esterno",
                                 " in parcheggio/garage comune",
                                 " in box privato/box in garage", ", ", "x"}
      [] f = "parse_stato" -> {"Ottimo", "/", " ", "Ristrutturato", "Buono", "Da ristrutturare"}
      [] f = "parse_housetype" -> {"Attico", "Mansarda", "Intera propriet@", "classe media",
                                   "loft", " | "}
      [] f = "clean_disponibilita" -> {"Libero", "dal", " ", "Occupato", "1"}
      [] f = "clean_anno_di_costruzione" -> {"19", "60", " ", "ca.", "-", "20"}
      [] f = "clean_riscaldamento" -> {"Autonomo", "Centralizzato", "a radiatori", "gas",
                                       "olio", "metano", ", ", "elettrica"}
      [] f = "clean_air_conditioning" -> {"Autonomo", "Centralizzato", "freddo", "caldo",
                                          "/", "assente", ", "}
      [] f = "clean_energy_efficiency" -> {"G", "a", "17", ",", ".", "5", " ", "kWh/m~ anno"}
      [] f = "parse_additional_features" -> {"Balconi", "box", "Furnished", "con", "ascensore",
                                             ",", " ", "Terrace", "attic"}
      [] f = "parse_description" -> {"Metro", "metropolitana", "treno", "Universit@",
                                     "luminosa", "silenziosa", "supermarket", " ", "casa"}
      [] f = "clean_deposit" -> {"1", "50", ".", "$ ", " ", "mesi", "2"}
      [] f = "add_municipio" -> {"Trastevere", "ostia", " ", "EUR", "Tras", "tevere", "x"}

\* cells that are not text: an empty cell, an integer, a float
NonText == {NaN, PyInt(2), PyFloat(5, 2)}

\* the variants of the listed "no fee" phrases the condo-fee column holds
NoFeeTexts ==
    {pre \o v \o post :
        v \in {"n.d.", "N.D.", "nessuna", "Nessuna", "nessun", "nessuno", "Nessuno",
               "non indicato", "Non indicato", "Nessuna spesa condominiale",
               "nessuna spesa condominiale", "nessun dato", "0", "zero", "Zero", "null",
               "NULL", "nulla", "nil", "-"},
        pre \in {"", " "}, post \in {"", " "}}

Inputs(f) ==
    NonText \cup {PyStr(t) : t \in Texts(Pieces(f), MaxPieces)}
            \cup (IF f = "clean_spese_condominio" THEN {PyStr(t) : t \in NoFeeTexts} ELSE {})

\* one-row raw tables for a call of normalizer f
CallTables(f) == {<<[EmptyRow EXCEPT ![RawField(f)] = v]>> : v \in Inputs(f)}

\* a raw row: the listed cells, every other cell empty
RowWith(cells) ==
    [c \in RawColumns |->
        IF \E i \in 1..Len(cells) : cells[i][1] = c
        THEN cells[CHOOSE i \in 1..Len(cells) : cells[i][1] = c][2]
        ELSE NaN]

\* listings of the raw table that main() cleans
Listings ==
    { RowWith(<< <<"prezzo", PyStr("$ 1.200/mese")>>, <<"m2", PyStr("85 m~")>>,
                 <<"piano", PyStr("3^, con ascensore")>>,
                 <<"totale piani edificio", PyStr("5 piani")>>,
                 <<"stanze", PyStr("3")>>, <<"bagni", PyStr("2")>>,
                 <<"locali", PyStr("3 (2 camere da letto, 1 altro), cucina abitabile")>>,
                 <<"contratto", PyStr("Affitto, 4+4")>>,
                 <<"Posti Auto", PyStr("2 in garage/box, 1 in garage/box")>>,
                 <<"stato", PyStr("Ottimo / Ristrutturato")>>,
                 <<"tipologia", PyStr("Attico | Intera propriet@")>>,
                 <<"altre caratteristiche", PyStr("Balconi, box, con accesso disabili")>>,
                 <<"description", PyStr("Luminoso attico vicino metro")>>,
                 <<"quartiere", PyStr("Trastevere")>> >>),
      RowWith(<< <<"prezzo", PyStr("Prezzo su richiesta")>>, <<"m2", PyStr("60 m~")>>,
                 <<"piano", PyStr("5^")>>, <<"totale piani edificio", PyStr("5")>>,
                 <<"stanze", PyStr("5+")>>, <<"bagni", PyStr("3+")>>,
                 <<"Posti Auto", PyStr("1 all'esterno")>>,
                 <<"stato", PyStr("Buono")>>, <<"quartiere", PyStr("Ignoto")>> >>),
      RowWith(<< <<"prezzo", PyFloat(900, 1)>>,
                 <<"piano", PyStr("Piano terra")>>, <<"totale piani edificio", PyInt(4)>>,
                 <<"locali", PyStr("campo da tennis")>>,
                 <<"altre caratteristiche", PyStr("Tennis court, attic")>>,
                 <<"quartiere", PyStr(" ostia")>> >>),
      RowWith(<< <<"prezzo", PyStr("750")>>, <<"m2", PyStr("n.d.")>>,
                 <<"piano", PyStr("2^ piano")>>, <<"totale piani edificio", PyStr("2 piani")>>,
                 <<"Posti Auto", PyStr("1 in parcheggio/garage comune")>>,
                 <<"stato", PyStr("Nuovo / In costruzione")>> >>),
      RowWith(<< <<"prezzo", PyStr("1.000")>>, <<"m2", PyFloat(45, 1)>>,
                 <<"piano", PyStr("1^")>>, <<"totale piani edificio", PyStr("3 piani")>>,
                 <<"bagni", PyStr("uno")>>,
                 <<"Posti Auto", PyStr("1 in box privato/box in garage, 2 all'esterno")>>,
                 <<"quartiere", PyStr("EUR")>> >>),
      RowWith(<< <<"prezzo", PyStr("2.500/mese")>>, <<"m2", PyStr("120.5 m~")>>,
                 <<"piano", PyStr("Su due livelli")>>,
                 <<"totale piani edificio", PyStr("piani")>>,
                 <<"stato", PyStr("Ottimo / Abitabile")>>,
                 <<"quartiere", PyInt(2)>> >>) }

\* the raw tables main() is run on: at most MaxRows listings
RECURSIVE Tables(_)
Tables(n) ==
    IF n = 0 THEN {<<>>}
    ELSE Tables(n - 1) \cup {Append(t, r) : t \in {u \in Tables(n - 1) : Len(u) = n - 1}, r \in Listings}

-----------------------------------------------------------------------------
(* State *)

\* raw          the table as loaded (one row for a single call)
\* data         the table the normalizers read
\* warning      the warning option passed to the normalizer
\* fn           "main", or the normalizer that is called on its own
\* pc           the step of main() to run next / "call", "returned"
\* result       the value returned by the normalizer called on its own
\* cleaned_data the table main() assembles
\* written      the table written to the output file, None before that

\* the values of the warning option main() passes (the default, line 12)
DefaultWarning == FALSE

InitCall(warnings) ==
    /\ fn \in NormalizerNames
    /\ raw \in CallTables(fn)
    /\ data = Rename(raw)
    /\ warning \in warnings
    /\ pc = "call"
    /\ result = None
    /\ cleaned_data = EmptyFrame
    /\ written = None

InitMain ==
    /\ fn = "main"
    /\ raw \in Tables(MaxRows) \ {<<>>}
    /\ data = raw
    /\ warning = DefaultWarning
    /\ pc = "rename"
    /\ result = None
    /\ cleaned_data = EmptyFrame
    /\ written = None

Init == InitMain \/ InitCall({DefaultWarning})

InitWarn == InitMain \/ InitCall(BOOLEAN)

-----------------------------------------------------------------------------
(* A normalizer called on one record of the renamed table *)

Call(f, value) ==
    /\ fn = f
    /\ pc = "call"
    /\ result' = value
    /\ pc' = "returned"
    /\ UNCHANGED <<raw, data, warning, fn, cleaned_data, written>>

CallCleanPrice == Call("clean_price", clean_price(data[1], warning))

CallCleanSpeseCondominio == Call("clean_spese_condominio", clean_spese_condominio(data[1], warning))

CallCleanMq == Call("clean_mq", clean_mq(data[1], warning))

CallCleanRooms == Call("clean_rooms", clean_rooms(data[1], warning))

CallCleanFloor == Call("clean_floor", clean_floor(data[1], warning))

CallCleanContratto == Call("clean_contratto", clean_contratto(data[1], warning))

CallCleanLocali == Call("clean_locali", clean_locali(data[1], warning))

CallCleanBathrooms == Call("clean_bathrooms", clean_bathrooms(data[1], warning))

CallParseParking == Call("parse_parking", parse_parking(data[1]))

CallParseStato == Call("parse_stato", parse_stato(data[1]))

CallParseHousetype == Call("parse_housetype", parse_housetype(data[1]))

CallCleanDisponibilita == Call("clean_disponibilita", clean_disponibilita(data[1], warning))

CallCleanAnnoDiCostruzione ==
    Call("clean_anno_di_costruzione", clean_anno_di_costruzione(data[1], warning))

CallCleanRiscaldamento == Call("clean_riscaldamento", clean_riscaldamento(data[1], warning))

CallCleanAirConditioning == Call("clean_air_conditioning", clean_air_conditioning(data[1], warning))

CallCleanEnergyEfficiency ==
    Call("clean_energy_efficiency", clean_energy_efficiency(data[1], warning))

CallParseAdditionalFeatures ==
    Call("parse_additional_features", parse_additional_features(data[1]))

CallParseDescription == Call("parse_description", parse_description(data[1]))

CallCleanDeposit == Call("clean_deposit", clean_deposit(data[1], warning))

CallAddMunicipio == Call("add_municipio", add_municipio(data[1]))

-----------------------------------------------------------------------------
(* main() *)

\* one step of main(): it ends the run when a normalizer raised, and
\* otherwise leaves the new table and moves to the next step
Step(label, next, results, table) ==
    /\ fn = "main"
    /\ pc = label
    /\ IF Raised(results)
       THEN pc' = "raised" /\ UNCHANGED cleaned_data
       ELSE pc' = next /\ cleaned_data' = table
    /\ UNCHANGED <<raw, data, warning, fn, result, written>>

\* data.apply(f, axis=1), then cleaned_data[label] = the result
Assign(label, next, column, results) ==
    Step(label, next, results, SetColumn(cleaned_data, column, results))

\* data.apply(f, axis=1), then pd.concat([cleaned_data, the result], axis=1)
Extend(label, next, results) ==
    Step(label, next, results, Concat(cleaned_data, ToFrame(results)))

RenameColumns ==
    /\ fn = "main"
    /\ pc = "rename"
    /\ data' = Rename(data)
    /\ pc' = "price"
    /\ UNCHANGED <<raw, warning, fn, result, cleaned_data, written>>

CleanPrice ==
    Assign("price", "condo_fees", "price", Apply(LAMBDA r : clean_price(r, DefaultWarning), data))

CleanSpeseCondominio ==
    Assign("condo_fees", "m2", "condo_fees",
           Apply(LAMBDA r : clean_spese_condominio(r, DefaultWarning), data))

CleanMq ==
    Assign("m2", "rooms", "m2", Apply(LAMBDA r : clean_mq(r, DefaultWarning), data))

CleanRooms ==
    Extend("rooms", "floor", Apply(LAMBDA r : clean_rooms(r, DefaultWarning), data))

CleanFloor ==
    Extend("floor", "contract", Apply(LAMBDA r : clean_floor(r, DefaultWarning), data))

CleanContratto ==
    Extend("contract", "locali", Apply(LAMBDA r : clean_contratto(r, DefaultWarning), data))

CleanLocali ==
    Extend("locali", "bathrooms", Apply(LAMBDA r : clean_locali(r, DefaultWarning), data))

CleanBathrooms ==
    LET results == Apply(LAMBDA r : clean_bathrooms(r, DefaultWarning), data)
        bathrooms_data == ToFrame(results)
        bathrooms == Column(bathrooms_data, "bathrooms")
        room_total == Column(cleaned_data, "room_total")
        bathrooms_per_room == [i \in 1..Len(results) |-> Divide(bathrooms[i], room_total[i])]
    IN  Step("bathrooms", "parking", results,
             Concat(cleaned_data,
                    SetColumn(bathrooms_data, "bathrooms_per_room", bathrooms_per_room)))

\* column > 0, row by row
Positive(table, column) ==
    [i \in 1..Len(table.rows) |-> PyBool(NumPos(Column(table, column)[i]))]

ParseParking ==
    LET results == Apply(parse_parking, data)
        t0 == Concat(cleaned_data, ToFrame(results))
        t1 == SetColumn(t0, "has_garage_box", Positive(t0, "garage_box"))
        t2 == SetColumn(t1, "has_outdoor_parking", Positive(t1, "outdoor_parking"))
        t3 == SetColumn(t2, "has_common_parking", Positive(t2, "common_parking"))
    IN  Step("parking", "stato", results,
             SetColumn(t3, "has_private_box", Positive(t3, "private_box")))

ParseStato ==
    LET results == Apply(parse_stato, data)
        t0 == Concat(cleaned_data, ToFrame(results))
        stato_condition_dummies == get_dummies(Column(t0, "stato_condition"), "stato_condition")
        stato_renovation_dummies == get_dummies(Column(t0, "stato_renovation"), "stato_renovation")
    IN  Step("stato", "tipologia", results,
             Concat(Concat(t0, stato_condition_dummies), stato_renovation_dummies))

ParseHousetype == Extend("tipologia", "disponibilita", Apply(parse_housetype, data))

CleanDisponibilita ==
    Assign("disponibilita", "anno", "is_available",
           Apply(LAMBDA r : clean_disponibilita(r, DefaultWarning), data))

CleanAnnoDiCostruzione ==
    Assign("anno", "riscaldamento", "construction_year",
           Apply(LAMBDA r : clean_anno_di_costruzione(r, DefaultWarning), data))

CleanRiscaldamento ==
    Extend("riscaldamento", "air_conditioning",
           Apply(LAMBDA r : clean_riscaldamento(r, DefaultWarning), data))

CleanAirConditioning ==
    Extend("air_conditioning", "energy_efficiency",
           Apply(LAMBDA r : clean_air_conditioning(r, DefaultWarning), data))

CleanEnergyEfficiency ==
    Extend("energy_efficiency", "other_features",
           Apply(LAMBDA r : clean_energy_efficiency(r, DefaultWarning), data))

ParseAdditionalFeatures ==
    Extend("other_features", "description", Apply(parse_additional_features, data))

ParseDescription == Extend("description", "deposit", Apply(parse_description, data))

CleanDeposit ==
    Assign("deposit", "municipio", "deposit",
           Apply(LAMBDA r : clean_deposit(r, DefaultWarning), data))

AddMunicipio == Extend("municipio", "save", Apply(add_municipio, data))

\* reset_index(drop=True) and to_csv: every row of cleaned_data is written
Save ==
    /\ fn = "main"
    /\ pc = "save"
    /\ written' = cleaned_data
    /\ pc' = "done"
    /\ UNCHANGED <<raw, data, warning, fn, result, cleaned_data>>

-----------------------------------------------------------------------------
(* Specifications *)

Next ==
    \/ CallCleanPrice
    \/ CallCleanSpeseCondominio
    \/ CallCleanMq
    \/ CallCleanRooms
    \/ CallCleanFloor
    \/ CallCleanContratto
    \/ CallCleanLocali
    \/ CallCleanBathrooms
    \/ CallParseParking
    \/ CallParseStato
    \/ CallParseHousetype
    \/ CallCleanDisponibilita
    \/ CallCleanAnnoDiCostruzione
    \/ CallCleanRiscaldamento
    \/ CallCleanAirConditioning
    \/ CallCleanEnergyEfficiency
    \/ CallParseAdditionalFeatures
    \/ CallParseDescription
    \/ CallCleanDeposit
    \/ CallAddMunicipio
    \/ RenameColumns
    \/ CleanPrice
    \/ CleanSpeseCondominio
    \/ CleanMq
    \/ CleanRooms
    \/ CleanFloor
    \/ CleanContratto
    \/ CleanLocali
    \/ CleanBathrooms
    \/ ParseParking
    \/ ParseStato
    \/ ParseHousetype
    \/ CleanDisponibilita
    \/ CleanAnnoDiCostruzione
    \/ CleanRiscaldamento
    \/ CleanAirConditioning
    \/ CleanEnergyEfficiency
    \/ ParseAdditionalFeatures
    \/ ParseDescription
    \/ CleanDeposit
    \/ AddMunicipio
    \/ Save

\* main() and the single calls, with the warning option at its default
Spec == Init /\ [][Next]_vars

\* the same, the single calls made with the warning option off or on
SpecWarn == InitWarn /\ [][Next]_vars

-----------------------------------------------------------------------------
(* Properties *)

\* the call of normalizer f on its own has returned
Returned(f) == fn = f /\ pc = "returned"

\* the raw cell that the normalizer called on its own reads
Cell == raw[1][RawField(fn)]

\* main() has run the step that adds the column
Assembled(column) == fn = "main" /\ HasColumn(cleaned_data, column)

\* the rows of a table whose price and m2 are both present, in order
RECURSIVE WithPriceAndArea(_, _)
WithPriceAndArea(table, n) ==
    IF n = 0 THEN <<>>
    ELSE IF IsNull(Column(table, "price")[n]) \/ IsNull(Column(table, "m2")[n])
    THEN WithPriceAndArea(table, n - 1)
    ELSE Append(WithPriceAndArea(table, n - 1), table.rows[n])

\* C1: when main() is done, the rows written are exactly the cleaned rows
\* whose normalized price and normalized area (m2) are both non-null, so
\* their number is the number of input rows minus the rows with a null
\* price or area.
C1_MandatoryFieldFilter ==
    (fn = "main" /\ pc = "done") =>
        /\ written.rows = WithPriceAndArea(cleaned_data, Len(cleaned_data.rows))
        /\ Len(written.rows) =
              Len(raw) - Cardinality({i \in 1..Len(raw) :
                                         \/ IsNull(Column(cleaned_data, "price")[i])
                                         \/ IsNull(Column(cleaned_data, "m2")[i])})

\* C2: a normalizer called on a record of the renamed table returns a value
\* and never raises, with the warning option off or on.
C2_NormalizersNeverRaise == pc = "returned" => ~IsRaise(result)

\* the "no fee" phrases of C3
NoFeeVocabulary ==
    {"n.d.", "nessuna", "nessun", "nessuno", "non indicato", "nessuna spesa condominiale",
     "nessun dato", "0", "zero", "null", "nulla", "nil", "-"}

\* C3: clean_spese_condominio returns 0.0 for every text that, ignoring case
\* and surrounding whitespace, is one of the "no fee" phrases.
C3_NoFeePhrasesGiveZero ==
    (Returned("clean_spese_condominio") /\ IsStr(Cell)
        /\ Lower(Strip(Cell[2])) \in NoFeeVocabulary) => result = PyFloat(0, 1)

\* the reference rows whose lowercased, trimmed name is the lowercased,
\* trimmed neighborhood
Matching(cell) ==
    {i \in 1..Len(municipio_df) :
        /\ IsStr(cell)
        /\ IsStr(municipio_df[i].Quartiere)
        /\ Strip(Lower(municipio_df[i].Quartiere[2])) = Strip(Lower(cell[2]))}

\* C4: add_municipio returns a record with the fields municipality,
\* InsideGRA and zone for every listing: the values of a matched reference
\* row, and three nulls when the neighborhood is not text or matches no
\* reference name.
C4_MunicipioAlwaysARecord ==
    Returned("add_municipio") =>
        /\ IsSeries(result)
        /\ Labels(result) = <<"municipality", "InsideGRA", "zone">>
        /\ IF Matching(Cell) # {}
           THEN \E i \in Matching(Cell) :
                    /\ Get(result, "municipality") = municipio_df[i].Municipio
                    /\ Get(result, "InsideGRA") = municipio_df[i].InsideGRA
                    /\ Get(result, "zone") = municipio_df[i].Zone
           ELSE \A l \in {"municipality", "InsideGRA", "zone"} : Get(result, l) = None

\* the synonym groups of the description flags
SynonymGroups ==
    << <<"subway", {"metro", "metropolitana"}>>,
       <<"station", {"stazione", "treno"}>>,
       <<"university", {"universita", "universit@"}>>,
       <<"bright", {"luminoso", "luminosa"}>>,
       <<"quiet", {"silenzioso", "silenziosa"}>>,
       <<"market", {"mercato", "supermercato", "super market", "supermarket"}>> >>

\* C5: for a text description, a synonym-group flag of parse_description is
\* 1 only if a synonym of its group occurs in the lowercased description; it
\* stays 0 when none does.
C5_DescriptionFlagsGated ==
    (Returned("parse_description") /\ IsStr(Cell)) =>
        \A g \in 1..Len(SynonymGroups) :
            Get(result, SynonymGroups[g][1]) = PyInt(1)
                => \E syn \in SynonymGroups[g][2] : Contains(syn, Lower(Cell[2]))

\* a string of decimal digits
IsCount(s) == Len(s) > 0 /\ \A i \in 1..Len(s) : IsDigit(Ch(s, i))

\* the raw total-floors cell holds a count: an integer, or a text whose
\* first word is one
HoldsCount(cell) ==
    \/ cell[1] = "int"
    \/ IsStr(cell) /\ Len(Split(cell[2])) > 0 /\ IsCount(Split(cell[2])[1])

CountHeld(cell) == IF cell[1] = "int" THEN cell[2] ELSE DecVal(Split(cell[2])[1])

\* C6: once main() has parsed the floors, a listing whose floor text
\* resolved to an ordinal floor and whose raw total-floors cell holds a count
\* has that count as total_floors_building, and last_floor true iff
\* floor >= total floors; last_floor is false without a total count.
C6_LastFloorFromTotalFloors ==
    Assembled("last_floor") =>
        \A i \in 1..Len(raw) :
            LET floor == Column(cleaned_data, "floor")[i]
                total == raw[i]["totale piani edificio"]
                ordinal == /\ IsStr(raw[i]["piano"])
                           /\ Contains("^", raw[i]["piano"][2])
                           /\ floor[1] = "int"
            IN  /\ (ordinal /\ HoldsCount(total)) =>
                      /\ Column(cleaned_data, "total_floors_building")[i] = PyInt(CountHeld(total))
                      /\ Column(cleaned_data, "last_floor")[i] = PyBool(floor[2] >= CountHeld(total))
                /\ ~HoldsCount(total) => Column(cleaned_data, "last_floor")[i] = PyBool(FALSE)

\* the length of the maximal run of decimal digits of s that ends at position i
DigitsBefore(s, i) ==
    CHOOSE n \in 0..i :
        /\ \A k \in (i - n + 1)..i : IsDigit(Ch(s, k))
        /\ (n = i \/ ~IsDigit(Ch(s, i - n)))

\* the floor text without the lift marker
WithoutLift(text) == Strip(Replace(Strip(Lower(text)), "ascensore", ""))

\* the floor text without the lift and disabled-access markers
Residual(text) == Strip(Replace(WithoutLift(text), "accesso disabili", ""))

\* the first comma- or whitespace-delimited token of r that holds a degree sign
OrdinalToken(r) ==
    LET tokens == Split(Replace(r, ",", " "))
    IN  tokens[CHOOSE i \in 1..Len(tokens) :
                   Contains("^", tokens[i]) /\ \A j \in 1..(i - 1) : ~Contains("^", tokens[j])]

\* a token N^: decimal digits followed by one degree sign
IsOrdinal(token) ==
    /\ Len(token) >= 2
    /\ Ch(token, Len(token)) = "^"
    /\ IsCount(SubSeq(token, 1, Len(token) - 1))

IsInteger(s) == IsCount(Unsigned(s))

IntegerValue(s) == SignOf(s) * DecVal(Unsigned(s))

\* the value and the lower-bound flag a count parser is to return for a text
\* whose capped notation is cap
LowerBoundPair(text, cap, value, flag) ==
    LET s == Strip(text)
    IN  /\ s = cap => value = PyInt(DecVal(SubSeq(cap, 1, Len(cap) - 1))) /\ flag = PyBool(TRUE)
        /\ (s # cap /\ IsInteger(s)) => value = PyInt(IntegerValue(s)) /\ flag = PyBool(FALSE)
        /\ (s # cap /\ ~IsInteger(s)) => value = None /\ flag \in {None, PyBool(FALSE)}
        /\ flag = PyBool(TRUE) => s = cap

\* C8: on a text, clean_rooms and clean_bathrooms return a value and a
\* lower-bound flag: the capped text ("5+" for rooms, "3+" for bathrooms)
\* gives the cap number with the flag true, an integer text gives the integer
\* with the flag false, any other text gives a null value with a null or
\* false flag; the flag is true only for the capped text.
C8_LowerBoundFlags ==
    /\ (Returned("clean_rooms") /\ IsStr(Cell)) =>
          /\ IsSeries(result)
          /\ LowerBoundPair(Cell[2], "5+", Get(result, "rooms"), Get(result, "more_than_5_rooms"))
    /\ (Returned("clean_bathrooms") /\ IsStr(Cell)) =>
          /\ IsSeries(result)
          /\ LowerBoundPair(Cell[2], "3+", Get(result, "bathrooms"),
                            Get(result, "more_than_3_bathrooms"))

\* the capped rooms text, padded: 5 rooms, as a lower bound
C8_Witness ==
    /\ Returned("clean_rooms")
    /\ IsStr(Cell)
    /\ Cell[2] # "5+"
    /\ Get(result, "rooms") = PyInt(5)
    /\ Get(result, "more_than_5_rooms") = PyBool(TRUE)

\* the keyword of each contract-type flag
ContractKeywords ==
    << <<"rent", "affitto">>, <<"free_rent", "libero">>, <<"controlled_rent", "concordato">>,
       <<"short_term_rent", "transitorio">>, <<"student_rent", "studenti">>,
       <<"buyout_rent", "riscatto">>, <<"income_property", "immobile a reddito">> >>

\* the positions of the "+" signs of s that stand between two digits
PlusBetweenDigits(s) ==
    {p \in 2..(Len(s) - 1) : Ch(s, p) = "+" /\ IsDigit(Ch(s, p - 1)) /\ IsDigit(Ch(s, p + 1))}

\* the two numbers around the first "+" that stands between two digits
FirstDurations(s) ==
    LET p == CHOOSE p \in PlusBetweenDigits(s) : \A q \in PlusBetweenDigits(s) : p <= q
    IN  <<DecVal(SubSeq(s, p - DigitsBefore(s, p - 1), p - 1)),
          DecVal(SubSeq(s, p + 1, p + DigitRun(s, p + 1)))>>

\* C9: clean_contratto sets each contract-type flag iff its keyword occurs
\* in the lowercased text, whatever the other flags; the two durations are
\* the numbers of the first N+M of the text, both 0 when the text has no N+M,
\* and both null only when the contract field is not text.
C9_ContractFlagsAndDurations ==
    Returned("clean_contratto") =>
        LET min == Get(result, "rent_min_duration")
            renewal == Get(result, "rent_renewal_duration")
        IN  IF IsStr(Cell)
            THEN /\ \A k \in 1..Len(ContractKeywords) :
                        Get(result, ContractKeywords[k][1]) =
                            PyBool(Contains(ContractKeywords[k][2], Lower(Cell[2])))
                 /\ IF PlusBetweenDigits(Cell[2]) # {}
                    THEN /\ min = PyInt(FirstDurations(Cell[2])[1])
                         /\ renewal = PyInt(FirstDurations(Cell[2])[2])
                    ELSE min = PyInt(0) /\ renewal = PyInt(0)
            ELSE /\ min = None
                 /\ renewal = None
                 /\ \A k \in 1..Len(ContractKeywords) :
                        Get(result, ContractKeywords[k][1]) = PyBool(FALSE)

\* a rental contract text without N+M: rent set, another flag not, both
\* durations 0
C9_Witness ==
    /\ Returned("clean_contratto")
    /\ IsStr(Cell)
    /\ Get(result, "rent") = PyBool(TRUE)
    /\ Get(result, "student_rent") = PyBool(TRUE)
    /\ Get(result, "controlled_rent") = PyBool(FALSE)
    /\ Get(result, "rent_min_duration") = PyInt(0)
    /\ Get(result, "rent_renewal_duration") = PyInt(0)

\* the phrase of each parking category
ParkingPhrases ==
    << <<"garage_box", " in garage/box">>, <<"outdoor_parking", " all'esterno">>,
       <<"common_parking", " in parcheggio/garage comune">>,
       <<"private_box", " in box privato/box in garage">> >>

\* the sum of the counts that lead the occurrences of the phrase in the cell
\* (position by position: the number that ends right before the phrase)
RECURSIVE LeadingCounts(_, _, _)
LeadingCounts(s, phrase, i) ==
    IF i <= 1 THEN 0
    ELSE LeadingCounts(s, phrase, i - 1)
         + (IF StartsAt(s, phrase, i) /\ IsDigit(Ch(s, i - 1))
            THEN DecVal(SubSeq(s, i - DigitsBefore(s, i - 1), i - 1))
            ELSE 0)

ParkingCount(cell, phrase) == IF IsStr(cell) THEN LeadingCounts(cell[2], phrase, Len(cell[2])) ELSE 0

\* C10: parse_parking returns, for each of the four categories, the sum of
\* the leading counts of all the occurrences of its phrase in the text, and 0
\* for all four when the text is missing; in main() each count column holds
\* that sum for its listing and each has_X column is true iff the count is
\* greater than 0.
C10_ParkingCounts ==
    /\ Returned("parse_parking") =>
          /\ IsSeries(result)
          /\ \A k \in 1..Len(ParkingPhrases) :
                Get(result, ParkingPhrases[k][1]) = PyInt(ParkingCount(Cell, ParkingPhrases[k][2]))
    /\ Assembled("has_private_box") =>
          \A i \in 1..Len(raw) : \A k \in 1..Len(ParkingPhrases) :
              LET count == ParkingCount(raw[i]["Posti Auto"], ParkingPhrases[k][2])
              IN  /\ Column(cleaned_data, ParkingPhrases[k][1])[i] = PyInt(count)
                  /\ Column(cleaned_data, "has_" \o ParkingPhrases[k][1])[i] = PyBool(count > 0)

\* two groups of the same category in one text: 2 + 1 garage boxes
C10_Witness ==
    /\ Returned("parse_parking")
    /\ IsStr(Cell)
    /\ Get(result, "garage_box") = PyInt(3)
    /\ Get(result, "outdoor_parking") = PyInt(0)

\* main() has written its table
Done == fn = "main" /\ pc = "done"

\* the labels of the indicator columns of a categorical field that are set
\* in row i of the table
IndicatorsSet(table, field, i) ==
    {table.columns[k] : k \in {j \in 1..Len(table.columns) :
                                 /\ StartsAt(table.columns[j], field \o "_", 1)
                                 /\ table.rows[i][j] = PyBool(TRUE)}}

\* the number of indicator columns of the field that are set in row i
IndicatorSum(table, field, i) ==
    Cardinality({j \in 1..Len(table.columns) :
                    /\ StartsAt(table.columns[j], field \o "_", 1)
                    /\ table.rows[i][j] = PyBool(TRUE)})

\* C11: in the table main() writes, the indicator columns of stato_condition
\* and of stato_renovation sum to 0 or 1 in every row; in a row whose raw
\* stato is absent no indicator is set but, for stato_condition, the one of
\* the default label Unknown.
C11_OneHotAtMostOne ==
    Done =>
        \A i \in 1..Len(written.rows) :
            /\ IndicatorSum(written, "stato_condition", i) \in {0, 1}
            /\ IndicatorSum(written, "stato_renovation", i) \in {0, 1}
            /\ ~IsStr(raw[i]["stato"]) =>
                  /\ IndicatorsSet(written, "stato_condition", i) \subseteq {"stato_condition_Unknown"}
                  /\ IndicatorsSet(written, "stato_renovation", i) = {}

\* a written table with a listing of known condition and renovation state
\* and a listing without stato: several indicator columns per field
C11_Witness ==
    /\ Done
    /\ Len(written.rows) = 2
    /\ HasColumn(written, "stato_condition_Ottimo")
    /\ HasColumn(written, "stato_condition_Unknown")
    /\ HasColumn(written, "stato_renovation_Ristrutturato")
    /\ IndicatorsSet(written, "stato_condition", 2) = {"stato_condition_Unknown"}

\* the distinct text values of a column
Observed(table, column) ==
    {Column(table, column)[i][2] : i \in {k \in 1..Len(table.rows) : IsStr(Column(table, column)[k])}}

\* the categorical string outputs that are to be one-hot encoded
CategoricalOutputs == {"kitchen_type", "stato_condition", "stato_renovation"}

\* C12: in the table main() writes, each categorical string output has one
\* indicator column per distinct observed value, and the string columns
\* kitchen_type, stato_condition and stato_renovation are no longer present.
C12_CategoricalColumnsDropped ==
    Done =>
        \A c \in CategoricalOutputs :
            /\ ~HasColumn(written, c)
            /\ \A v \in Observed(cleaned_data, c) : HasColumn(written, c \o "_" \o v)

\* the text a numeric field parser is left with after its stripping
Stripped(f, text) ==
    CASE f = "clean_price" -> Strip(Replace(Replace(Replace(text, "/mese", ""), "$", ""), ".", ""))
      [] f = "clean_mq" -> Strip(Replace(text, "m~", ""))
      [] OTHER -> Strip(Replace(Replace(text, "$", ""), ".", ""))

\* the digits before and after the decimal point of an unsigned text
IntegerPart(b) == IF Find(".", b) = 0 THEN b ELSE SubSeq(b, 1, Find(".", b) - 1)

FractionPart(b) == IF Find(".", b) = 0 THEN "" ELSE From(b, Find(".", b) + 1)

\* a number: an optional sign, then digits with at most one decimal point
IsDecimal(s) ==
    LET ip == IntegerPart(Unsigned(s))
        fp == FractionPart(Unsigned(s))
    IN  /\ Len(ip) = 0 \/ IsCount(ip)
        /\ Len(fp) = 0 \/ IsCount(fp)
        /\ Len(ip) + Len(fp) > 0

DecimalValue(s) ==
    LET ip == IntegerPart(Unsigned(s))
        fp == FractionPart(Unsigned(s))
    IN  PyFloat(SignOf(s) * (DecVal(ip) * Pow10(Len(fp)) + DecVal(fp)), Pow10(Len(fp)))

NumericParsers == {"clean_price", "clean_spese_condominio", "clean_deposit", "clean_mq"}

\* C13 as stated: each numeric field parser returns a non-text value
\* unchanged and, for a text, the number left after its stripping (currency
\* byte and every "." removed for price, condo fees and deposit, "/mese" too
\* for price; only the m2 suffix for the area, whose "." is a decimal point),
\* or null when what is left is not a number.
C13_Original ==
    (fn \in NumericParsers /\ pc = "returned") =>
        IF ~IsStr(Cell) THEN result = Cell
        ELSE IF IsDecimal(Stripped(fn, Cell[2])) THEN result = DecimalValue(Stripped(fn, Cell[2]))
        ELSE result = None

\* C13, amended: as stated, except that clean_spese_condominio returns 0.0
\* when the text left after its stripping is, lowercased, one of its no-fee
\* phrases.
C13_NumericParsers ==
    (fn \in NumericParsers /\ pc = "returned") =>
        IF ~IsStr(Cell) THEN result = Cell
        ELSE IF fn = "clean_spese_condominio" /\ Lower(Stripped(fn, Cell[2])) \in NoFeeVocabulary
        THEN result = PyFloat(0, 1)
        ELSE IF IsDecimal(Stripped(fn, Cell[2])) THEN result = DecimalValue(Stripped(fn, Cell[2]))
        ELSE result = None

\* a price with a thousands dot and the monthly suffix: 1.20/mese gives 120
C13_Witness ==
    /\ Returned("clean_price")
    /\ IsStr(Cell)
    /\ Contains(".", Cell[2])
    /\ Contains("/mese", Cell[2])
    /\ result = PyFloat(120, 1)

\* the class letters, in the order of their ordinals 1..7
ClassLetters == "ABCDEFG"

\* the ordinal of the class letter that leads the text, 0 when none does
ClassOrdinal(text) ==
    LET t == Strip(text)
        ks == {k \in 1..Len(ClassLetters) : Len(t) > 0 /\ UpperCh(Ch(t, 1)) = Ch(ClassLetters, k)}
    IN  IF ks = {} THEN 0 ELSE CHOOSE k \in ks : TRUE

\* the first numeric token of the text: digits, and a "," or "." followed by
\* digits when there is one, read with "." as the decimal point
FirstNumber(text) ==
    LET i == CHOOSE i \in 1..Len(text) :
                 IsDigit(Ch(text, i)) /\ \A j \in 1..(i - 1) : ~IsDigit(Ch(text, j))
        n == DigitRun(text, i)
        m == IF i + n < Len(text) /\ Ch(text, i + n) \in {".", ","}
             THEN DigitRun(text, i + n + 1) ELSE 0
    IN  IF m = 0 THEN DecimalValue(SubSeq(text, i, i + n - 1))
        ELSE DecimalValue(SubSeq(text, i, i + n - 1) \o "." \o SubSeq(text, i + n + 1, i + n + m))

\* C14: for a text, clean_energy_efficiency gives as class the ordinal 1..7
\* of the leading class letter A..G, null when no such letter leads the text,
\* and as consumption the first numeric token of the text, null when the
\* text has none; neither depends on the other.
C14_EnergyClassOrdinal ==
    (Returned("clean_energy_efficiency") /\ IsStr(Cell)) =>
        /\ Get(result, "energy_efficiency_class") =
              (IF ClassOrdinal(Cell[2]) = 0 THEN None ELSE PyInt(ClassOrdinal(Cell[2])))
        /\ Get(result, "energy_efficiency_consumption_kwh") =
              (IF \E i \in 1..Len(Cell[2]) : IsDigit(Ch(Cell[2], i))
               THEN FirstNumber(Cell[2]) ELSE None)

\* the phrases that set each heating flag
HeatingGroups ==
    << <<"heating_autonomous", {"autonomo"}>>, <<"heating_centralized", {"centralizzato"}>>,
       <<"heating_radiators", {"radiatori"}>>, <<"heating_floor", {"pavimento"}>>,
       <<"heating_air", {"aria"}>>, <<"heating_stove", {"stufa"}>>, <<"heating_gas", {"gas"}>>,
       <<"heating_methane", {"metano"}>>, <<"heating_gpl", {"gpl"}>>,
       <<"heating_diesel", {"gasolio"}>>, <<"heating_heat_pump", {"pompa di calore"}>>,
       <<"heating_district_heating", {"teleriscaldamento"}>>,
       <<"heating_photovoltaic", {"fotovoltaico"}>>, <<"heating_solar", {"solare"}>>,
       <<"heating_electric", {"elettrica", "elettrico"}>>, <<"heating_pellet", {"pellet"}>> >>

\* the phrases that set each air-conditioning flag
AirConditioningGroups ==
    << <<"air_conditioning_autonomous", {"autonomo"}>>,
       <<"air_conditioning_centralized", {"centralizzato"}>>,
       <<"air_conditioning_prearranged", {"predisposizione"}>>,
       <<"air_conditioning_cold", {"freddo"}>>, <<"air_conditioning_hot", {"caldo"}>>,
       <<"air_conditioning_absent", {"assente"}>> >>

\* the flags of an extractor, in output order, each with its synonym group
KeywordGroups(f) ==
    CASE f = "clean_riscaldamento" -> HeatingGroups
      [] f = "clean_air_conditioning" -> AirConditioningGroups
      [] f = "parse_housetype" ->
            [k \in 1..Len(property_types) |->
                <<property_types[k],
                  {italian_to_english[j][1] : j \in {i \in 1..Len(italian_to_english) :
                                                        italian_to_english[i][2] = property_types[k]}}>>]
      [] f = "parse_additional_features" ->
            [k \in 1..Len(features) |->
                <<features[k],
                  UNION {feature_phrases[j][2] : j \in {i \in 1..Len(feature_phrases) :
                                                           feature_phrases[i][1] = features[k]}}>>]

KeywordExtractors ==
    {"parse_housetype", "clean_riscaldamento", "clean_air_conditioning", "parse_additional_features"}

\* the flags an extractor is to return when it matches its phrases in text
FlagsFrom(f, text) ==
    /\ IsSeries(result)
    /\ Labels(result) = [k \in 1..Len(KeywordGroups(f)) |-> KeywordGroups(f)[k][1]]
    /\ \A k \in 1..Len(KeywordGroups(f)) :
          Get(result, KeywordGroups(f)[k][1]) =
              PyBool(/\ IsStr(Cell)
                     /\ \E phrase \in KeywordGroups(f)[k][2] : Contains(phrase, text)
                     /\ KeywordGroups(f)[k][1] = "heating_gas" => ~Contains("gasolio", text))

\* the comma-separated parts of a text, each trimmed and lowercased, joined
\* by single spaces
PartsJoined(text) ==
    Join([i \in 1..Len(SplitOn(text, ",")) |-> Strip(Lower(SplitOn(text, ",")[i]))], " ")

\* C15 as stated: every flag of the property-type, heating, air-conditioning
\* and amenities extractors is a boolean, false when the field is not text,
\* and for a text true iff a phrase of its synonym group is a substring of
\* the lowercased raw text (heating_gas: and gasolio is not).
C15_Original ==
    (fn \in KeywordExtractors /\ pc = "returned") =>
        FlagsFrom(fn, IF IsStr(Cell) THEN Lower(Cell[2]) ELSE "")

\* C15, amended: as stated, except that the amenities extractor looks for
\* the phrases in the text made of the comma-separated parts of the raw
\* text, each trimmed and lowercased, joined by single spaces.
C15_KeywordFlags ==
    (fn \in KeywordExtractors /\ pc = "returned") =>
        FlagsFrom(fn, IF ~IsStr(Cell) THEN ""
                      ELSE IF fn = "parse_additional_features" THEN PartsJoined(Cell[2])
                      ELSE Lower(Cell[2]))

\* an amenities text whose parts "con" and "ascensore" meet only once joined
C15_Witness ==
    /\ Returned("parse_additional_features")
    /\ IsStr(Cell)
    /\ ~Contains("con ascensore", Lower(Cell[2]))
    /\ Get(result, "elevator") = PyBool(TRUE)
    /\ Get(result, "terrace") = PyBool(FALSE)

\* the value of the first run of digits of the text, 0 when it has none
FirstInteger(text) ==
    IF \E i \in 1..Len(text) : IsDigit(Ch(text, i))
    THEN LET i == CHOOSE i \in 1..Len(text) :
                      IsDigit(Ch(text, i)) /\ \A j \in 1..(i - 1) : ~IsDigit(Ch(text, j))
         IN  DecVal(SubSeq(text, i, i + DigitRun(text, i) - 1))
    ELSE 0

BedroomsPhrase == " camere da letto, "

\* the positions where the phrase "N camere da letto, M altri" has its " camere"
BreakdownAt(text) ==
    {p \in 2..Len(text) :
        /\ StartsAt(text, BedroomsPhrase, p)
        /\ IsDigit(Ch(text, p - 1))
        /\ DigitRun(text, p + Len(BedroomsPhrase)) > 0
        /\ StartsAt(text, " altri",
                    p + Len(BedroomsPhrase) + DigitRun(text, p + Len(BedroomsPhrase)))}

\* <<N, M>> of the first "N camere da letto, M altri", <<0, 0>> without one
Breakdown(text) ==
    IF BreakdownAt(text) = {} THEN <<0, 0>>
    ELSE LET p == CHOOSE p \in BreakdownAt(text) : \A q \in BreakdownAt(text) : p <= q
             k == p + Len(BedroomsPhrase)
         IN  <<DecVal(SubSeq(text, p - DigitsBefore(text, p - 1), p - 1)),
               DecVal(SubSeq(text, k, k + DigitRun(text, k) - 1))>>

\* a lowercase letter a..z or a whitespace character
IsLowerOrSpace(c) == c \in Whitespace \/ \E k \in 1..26 : Ch("abcdefghijklmnopqrstuvwxyz", k) = c

\* the span of lowercase letters and whitespace of s that starts at i
RECURSIVE SpanFrom(_, _)
SpanFrom(s, i) ==
    IF i > Len(s) \/ ~IsLowerOrSpace(Ch(s, i)) THEN "" ELSE Ch(s, i) \o SpanFrom(s, i + 1)

\* the trimmed span that follows the first "cucina " that has one
KitchenType(text) ==
    LET at == {q \in 1..Len(text) : StartsAt(text, "cucina ", q) /\ Len(SpanFrom(text, q + 7)) > 0}
    IN  IF at = {} THEN ""
        ELSE Strip(SpanFrom(text, 7 + CHOOSE q \in at : \A r \in at : q <= r))

\* C16: clean_locali returns five sub-values, none of them null: room_total
\* the first integer of the text, bedrooms and other_rooms the numbers of
\* "N camere da letto, M altri", kitchen_type the trimmed span of lowercase
\* letters (and blanks) after "cucina ", tennis_court whether the text holds
\* "campo da tennis"; a sub-value whose pattern is absent, and every one when
\* the field is not text, is 0, 0, 0, the empty string, false.
C16_LocaliSubValues ==
    Returned("clean_locali") =>
        /\ IsSeries(result)
        /\ IF IsStr(Cell)
           THEN /\ Get(result, "room_total") = PyInt(FirstInteger(Cell[2]))
                /\ Get(result, "bedrooms") = PyInt(Breakdown(Cell[2])[1])
                /\ Get(result, "other_rooms") = PyInt(Breakdown(Cell[2])[2])
                /\ Get(result, "kitchen_type") = PyStr(KitchenType(Cell[2]))
                /\ Get(result, "tennis_court") = PyBool(Contains("campo da tennis", Cell[2]))
           ELSE /\ Get(result, "room_total") = PyInt(0)
                /\ Get(result, "bedrooms") = PyInt(0)
                /\ Get(result, "other_rooms") = PyInt(0)
                /\ Get(result, "kitchen_type") = PyStr("")
                /\ Get(result, "tennis_court") = PyBool(FALSE)

\* a text with the room breakdown: 2 bedrooms and 1 other room
C16_Witness ==
    /\ Returned("clean_locali")
    /\ IsStr(Cell)
    /\ Get(result, "room_total") = PyInt(2)
    /\ Get(result, "bedrooms") = PyInt(2)
    /\ Get(result, "other_rooms") = PyInt(1)
    /\ Get(result, "tennis_court") = PyBool(FALSE)

\* C17: after every step of main(), the column names of the table under
\* assembly are pairwise distinct.
C17_DistinctColumnNames ==
    fn = "main" =>
        \A j, k \in 1..Len(cleaned_data.columns) :
            cleaned_data.columns[j] = cleaned_data.columns[k] => j = k

====
